---- MODULE Spec2Model ----
(***************************************************************************)
(* Model of core/src/server/params.rs: the read-only view `Params<'a>`     *)
(* over a request's `common::Params` container, its keyed lookup           *)
(* (`get_raw`), typed decode (`get`), iteration (`into_iter`, `Iter`) and  *)
(* Debug rendering.                                                        *)
(***************************************************************************)
EXTENDS Integers, Sequences, FiniteSets, TLC

\* ---------------------------------------------------------------- bounds
MaxLen == 3        \* longest Array container
MaxEntries == 2    \* most entries of a Map container
HugeIndex == 1000000   \* stands for an arbitrarily large usize index

\* ------------------------------------------------------- Option / Result
\* Option<T>: the empty tuple is None, a one-element tuple is Some(v).
None == <<>>
Some(v) == <<v>>
\* Result<T, ()>: Err(()) carries no information at all.
Err == <<"Err">>
Ok(v) == <<"Ok", v>>

\* ------------------------------------------------------------ JSON values
JBool(b) == [t |-> "bool", b |-> b, n |-> 0]
JNumber(n) == [t |-> "number", b |-> FALSE, n |-> n]
JsonValues == {JBool(TRUE), JNumber(300)}

\* ------------------------------------------------------------- ParamKey
KeyString(s) == [kind |-> "String", s |-> s, i |-> 0]
KeyIndex(i) == [kind |-> "Index", s |-> "", i |-> i]
NamedKeys == {"", "a", "z"}
Indices == (0 .. MaxLen) \cup {HugeIndex}
Keys == {KeyString(s) : s \in NamedKeys} \cup {KeyIndex(i) : i \in Indices}

\* -------------------------------------------------------- common::Params
\* A Map container is the sequence of its entries in insertion order, with
\* unique keys.
ParamsNone == [tag |-> "None", array |-> <<>>, map |-> <<>>]
ParamsArray(a) == [tag |-> "Array", array |-> a, map |-> <<>>]
ParamsMap(m) == [tag |-> "Map", array |-> <<>>, map |-> m]
Entries == [k : NamedKeys, v : JsonValues]
UniqueKeys(m) == \A i, j \in DOMAIN m : m[i].k = m[j].k => i = j
Arrays == UNION {[1..n -> JsonValues] : n \in 0..MaxLen}
Maps == {m \in UNION {[1..n -> Entries] : n \in 0..MaxEntries} : UniqueKeys(m)}
Containers == {ParamsNone} \cup {ParamsArray(a) : a \in Arrays}
                \cup {ParamsMap(m) : m \in Maps}

\* serde_json::Map::get: the value stored under key, if any.
map_get(m, key) ==
    IF \E i \in DOMAIN m : m[i].k = key
    THEN Some(m[CHOOSE i \in DOMAIN m : m[i].k = key].v)
    ELSE None

\* --------------------------------------------------------------- get_raw
get_raw_offbyone(p, key) ==
    CASE p.tag = "None" -> None
      [] p.tag = "Map" /\ key.kind = "String" -> map_get(p.map, key.s)
      [] p.tag = "Map" /\ key.kind = "Index" -> None
      [] p.tag = "Array" /\ key.kind = "String" -> None
      [] p.tag = "Array" /\ key.kind = "Index" ->
            IF key.i + 1 < Len(p.array) THEN Some(p.array[key.i + 1]) ELSE None

get_raw_emptykey(p, key) ==
    CASE p.tag = "None" -> None
      [] p.tag = "Map" /\ key.kind = "String" ->
            IF key.s = "" THEN None ELSE map_get(p.map, key.s)
      [] p.tag = "Map" /\ key.kind = "Index" -> None
      [] p.tag = "Array" /\ key.kind = "String" -> None
      [] p.tag = "Array" /\ key.kind = "Index" ->
            IF key.i < Len(p.array) THEN Some(p.array[key.i + 1]) ELSE None

get_raw_crosskind(p, key) ==
    CASE p.tag = "None" -> None
      [] p.tag = "Map" /\ key.kind = "String" -> map_get(p.map, key.s)
      [] p.tag = "Map" /\ key.kind = "Index" ->
            IF key.i < Len(p.map) THEN Some(p.map[key.i + 1].v) ELSE None
      [] p.tag = "Array" /\ key.kind = "String" -> None
      [] p.tag = "Array" /\ key.kind = "Index" ->
            IF key.i < Len(p.array) THEN Some(p.array[key.i + 1]) ELSE None

\* Params::get_raw; Rust indexes from 0, TLA+ sequences from 1.
get_raw(p, key) ==
    CASE p.tag = "None" -> None
      [] p.tag = "Map" /\ key.kind = "String" -> map_get(p.map, key.s)
      [] p.tag = "Map" /\ key.kind = "Index" -> None
      [] p.tag = "Array" /\ key.kind = "String" -> None
      [] p.tag = "Array" /\ key.kind = "Index" ->
            IF key.i < Len(p.array) THEN Some(p.array[key.i + 1]) ELSE None

\* ------------------------------------------------------------------- get
\* Target shapes T of get::<T>.
Targets == {"bool", "u8", "u16", "Value"}

\* serde_json::from_value::<T>: Ok(decoded) or Err.  A decoded value is
\* the pair of its Rust type and its native payload.
from_value(v, T) ==
    CASE T = "bool" -> IF v.t = "bool" THEN Ok(<<"bool", v.b>>) ELSE Err
      [] T = "u8" -> IF v.t = "number" /\ v.n >= 0 /\ v.n <= 255
                     THEN Ok(<<"u8", v.n>>) ELSE Err
      [] T = "u16" -> IF v.t = "number" /\ v.n >= 0 /\ v.n <= 65535
                      THEN Ok(<<"u16", v.n>>) ELSE Err
      [] T = "Value" -> Ok(<<"Value", v>>)

get_lenient(p, key, T) ==
    LET val == get_raw(p, key) IN
    IF val = None THEN Err
    ELSE IF from_value(val[1], T) = Err THEN Ok(<<T, 0>>)
    ELSE from_value(val[1], T)

\* Params::get: `?` on the absent value, then map_err(|_| ()).
get(p, key, T) ==
    LET val == get_raw(p, key) IN
    IF val = None THEN Err ELSE from_value(val[1], T)

\* ------------------------------------------------------------- iteration
\* IterInner: Empty, or Map(serde_json::map::Iter) holding the entries not
\* yet yielded.  NoIter: no iterator has been created yet.
NoIter == [tag |-> "NoIter", rest |-> <<>>]
IterEmpty == [tag |-> "Empty", rest |-> <<>>]
IterMap(rest) == [tag |-> "Map", rest |-> rest]
\* Outcome of the unimplemented!() arm: the call panics.
Unimplemented == [tag |-> "unimplemented!", rest |-> <<>>]

\* IntoIterator for Params::into_iter
into_iter(p) ==
    CASE p.tag = "None" -> IterEmpty
      [] p.tag = "Array" -> Unimplemented
      [] p.tag = "Map" -> IterMap(p.map)

Iter_next_back(it) ==
    CASE it.tag = "Empty" -> [item |-> None, it |-> it]
      [] it.tag = "Map" ->
            IF it.rest = <<>> THEN [item |-> None, it |-> it]
            ELSE [item |-> Some(<<KeyString(it.rest[Len(it.rest)].k),
                                  it.rest[Len(it.rest)].v>>),
                  it |-> IterMap(SubSeq(it.rest, 1, Len(it.rest) - 1))]

Iter_next_skip(it) ==
    CASE it.tag = "Empty" -> [item |-> None, it |-> it]
      [] it.tag = "Map" ->
            IF it.rest = <<>> THEN [item |-> None, it |-> it]
            ELSE [item |-> Some(<<KeyString(Head(it.rest).k), Head(it.rest).v>>),
                  it |-> IterMap(IF Len(it.rest) > 1 THEN Tail(Tail(it.rest))
                                 ELSE <<>>)]

\* Iter::next: the yielded item (an Option) and the advanced iterator.
Iter_next(it) ==
    CASE it.tag = "Empty" -> [item |-> None, it |-> it]
      [] it.tag = "Map" ->
            IF it.rest = <<>> THEN [item |-> None, it |-> it]
            ELSE [item |-> Some(<<KeyString(Head(it.rest).k), Head(it.rest).v>>),
                  it |-> IterMap(Tail(it.rest))]

size_hint_unbounded(it) ==
    CASE it.tag = "Empty" -> <<0, None>>
      [] it.tag = "Map" -> <<Len(it.rest), Some(Len(it.rest))>>

\* Iter::size_hint: (lower bound, optional upper bound).
size_hint(it) ==
    CASE it.tag = "Empty" -> <<0, Some(0)>>
      [] it.tag = "Map" -> <<Len(it.rest), Some(Len(it.rest))>>

\* fmt::Debug for ParamKey: a string key prints as a string, an index key
\* as an integer.
ParamKey_fmt(key) ==
    IF key.kind = "String" THEN <<"str", key.s>> ELSE <<"usize", key.i>>

RECURSIVE entries(_)
\* DebugMap::entries: drains the iterator, rendering one entry per item.
entries(it) ==
    LET r == Iter_next(it) IN
    IF r.item = None THEN <<>>
    ELSE <<<<ParamKey_fmt(r.item[1][1]), r.item[1][2]>>>> \o entries(r.it)

\* fmt::Debug for Params: debug_map().entries(self.into_iter()).finish();
\* the listing, or a panic when into_iter panics.
Params_fmt(p) ==
    IF into_iter(p) = Unimplemented THEN <<"panic">>
    ELSE <<"map", entries(into_iter(p))>>

\* ------------------------------------------------------------------ state
VARIABLES
    params,    \* the container the views borrow
    iter,      \* the iterator obtained from the latest into_iter
    yielded,   \* items the iterator has returned so far
    ended,     \* the iterator has returned None
    last,      \* the latest call and what it returned
    watch,     \* a key whose first get_raw result is remembered
    first,     \* result of the first get_raw(watch), None until then
    panicked   \* a call has panicked

vars == <<params, iter, yielded, ended, last, watch, first, panicked>>

NoKey == KeyString("")
Call(op, key, ty, res) == [op |-> op, key |-> key, ty |-> ty, res |-> res]

Init ==
    /\ params \in Containers
    /\ iter = NoIter
    /\ yielded = <<>>
    /\ ended = FALSE
    /\ last = Call("from", NoKey, "", None)
    /\ watch \in Keys
    /\ first = None
    /\ panicked = FALSE

\* #[derive(Copy, Clone)]: a copy of the view is the same reference to the
\* same container, so copying adds no state; later calls may go through it.
Copy ==
    /\ ~panicked
    /\ last' = Call("copy", NoKey, "", None)
    /\ UNCHANGED <<params, iter, yielded, ended, watch, first, panicked>>

GetRawTaking(key) ==
    /\ ~panicked
    /\ last' = Call("get_raw", key, "", get_raw(params, key))
    /\ first' = IF key = watch /\ first = None
                THEN Some(get_raw(params, key)) ELSE first
    /\ params' = IF params.tag = "Map" /\ key.kind = "String"
                 THEN ParamsMap(SelectSeq(params.map, LAMBDA e : e.k # key.s))
                 ELSE params
    /\ UNCHANGED <<iter, yielded, ended, watch, panicked>>

\* a call of get_raw through any copy of the view
GetRaw(key) ==
    /\ ~panicked
    /\ last' = Call("get_raw", key, "", get_raw(params, key))
    /\ first' = IF key = watch /\ first = None
                THEN Some(get_raw(params, key)) ELSE first
    /\ UNCHANGED <<params, iter, yielded, ended, watch, panicked>>

\* a call of get::<T> through any copy of the view
Get(key, T) ==
    /\ ~panicked
    /\ last' = Call("get", key, T, get(params, key, T))
    /\ UNCHANGED <<params, iter, yielded, ended, watch, first, panicked>>

\* a call of into_iter: a fresh iterator, or the panic of unimplemented!()
IntoIter ==
    /\ ~panicked
    /\ last' = Call("into_iter", NoKey, "", None)
    /\ IF into_iter(params) = Unimplemented
       THEN /\ panicked' = TRUE
            /\ UNCHANGED <<iter, yielded, ended>>
       ELSE /\ iter' = into_iter(params)
            /\ yielded' = <<>>
            /\ ended' = FALSE
            /\ UNCHANGED panicked
    /\ UNCHANGED <<params, watch, first>>

\* a call of Iter::next on the current iterator
Next_ ==
    /\ ~panicked
    /\ iter # NoIter
    /\ LET r == Iter_next(iter) IN
        /\ iter' = r.it
        /\ last' = Call("next", NoKey, "", r.item)
        /\ yielded' = IF r.item = None THEN yielded ELSE Append(yielded, r.item[1])
        /\ ended' = (ended \/ r.item = None)
    /\ UNCHANGED <<params, watch, first, panicked>>

\* a call of Iter::size_hint on the current iterator
SizeHint ==
    /\ ~panicked
    /\ iter # NoIter
    /\ last' = Call("size_hint", NoKey, "", size_hint(iter))
    /\ UNCHANGED <<params, iter, yielded, ended, watch, first, panicked>>

\* rendering the view with {:?}
Fmt ==
    /\ ~panicked
    /\ last' = Call("fmt", NoKey, "", Params_fmt(params))
    /\ panicked' = (Params_fmt(params) = <<"panic">>)
    /\ UNCHANGED <<params, iter, yielded, ended, watch, first>>

Next ==
    \/ Copy
    \/ \E key \in Keys : GetRaw(key)
    \/ \E key \in Keys, T \in Targets : Get(key, T)
    \/ IntoIter
    \/ Next_
    \/ SizeHint
    \/ Fmt

Spec == Init /\ [][Next]_vars

\* ---------------------------------------------------------------- claims
\* The pairs an iteration over map m is expected to yield, in m's order.
ExpectedPairs(m) == [j \in 1..Len(m) |-> <<KeyString(m[j].k), m[j].v>>]

\* The value v structurally matches the target shape T.
Matches(v, T) ==
    \/ T = "Value"
    \/ T = "bool" /\ v.t = "bool"
    \/ T = "u8" /\ v.t = "number" /\ v.n \in 0..255
    \/ T = "u16" /\ v.t = "number" /\ v.n \in 0..65535

\* C1: on an Array container a positional key i makes get_raw return the
\* element at index i when i < length and None when i >= length, however
\* large i is, and the call never panics.
C1_SequencePositional ==
    (last.op = "get_raw" /\ params.tag = "Array" /\ last.key.kind = "Index") =>
        /\ ~panicked
        /\ last.key.i < Len(params.array) =>
                last.res = Some(params.array[last.key.i + 1])
        /\ last.key.i >= Len(params.array) => last.res = None

C1_Witness ==
    /\ last.op = "get_raw" /\ params.tag = "Array"
    /\ Len(params.array) > 0
    /\ last.key = KeyIndex(HugeIndex)
    /\ last.res = None

\* C2: on a Map container a named key k makes get_raw return the value
\* stored under k when k is a key of the map and None when it is not, the
\* empty string included.
C2_MappingNamed ==
    (last.op = "get_raw" /\ params.tag = "Map" /\ last.key.kind = "String") =>
        \/ \E i \in DOMAIN params.map :
                params.map[i].k = last.key.s /\ last.res = Some(params.map[i].v)
        \/ /\ \A i \in DOMAIN params.map : params.map[i].k # last.key.s
           /\ last.res = None

C2_Witness ==
    /\ last.op = "get_raw" /\ params.tag = "Map"
    /\ Len(params.map) > 0
    /\ last.key = KeyString("")
    /\ \A i \in DOMAIN params.map : params.map[i].k # ""
    /\ last.res = None

\* C3: get_raw returns None, without panicking, whenever the key kind does
\* not fit the container: any key on None, an index key on a Map, a string
\* key on an Array.
C3_KindMismatchAbsent ==
    (/\ last.op = "get_raw"
     /\ \/ params.tag = "None"
        \/ params.tag = "Map" /\ last.key.kind = "Index"
        \/ params.tag = "Array" /\ last.key.kind = "String") =>
        last.res = None /\ ~panicked

C3_Witness ==
    /\ last.op = "get_raw" /\ params.tag = "Map"
    /\ Len(params.map) > 0
    /\ last.key = KeyIndex(0)
    /\ last.res = None

\* C4: get::<T>(key) returns Ok(decoded value) exactly when get_raw(key) is
\* present and the value matches T; when the value is absent and when it
\* does not match T it returns the same error Err(()).
C4_GetDecodes ==
    last.op = "get" =>
        LET raw == get_raw(params, last.key) IN
        IF raw # None /\ Matches(raw[1], last.ty)
        THEN /\ last.res = from_value(raw[1], last.ty)
             /\ last.res[1] = "Ok"
             /\ last.res[2][1] = last.ty
        ELSE last.res = Err

C4_Witness ==
    /\ last.op = "get" /\ last.ty = "u8"
    /\ get_raw(params, last.key) = Some(JNumber(300))
    /\ last.res = Err

\* C5: starting the iteration over an Array container does not abort, and
\* the iteration yields (Index(0), element 0), ..., (Index(n-1), element n-1)
\* in index order with an exact remaining-length bound.
C5_SequenceIteration ==
    (params.tag = "Array" /\ last.op \in {"into_iter", "next", "size_hint"}) =>
        /\ ~panicked
        /\ iter # NoIter
        /\ Len(yielded) <= Len(params.array)
        /\ \A j \in DOMAIN yielded :
                yielded[j] = <<KeyIndex(j - 1), params.array[j]>>
        /\ ended => Len(yielded) = Len(params.array)
        /\ size_hint(iter) = <<Len(params.array) - Len(yielded),
                               Some(Len(params.array) - Len(yielded))>>

\* C6: rendering the Debug dump of a view never aborts, whatever the
\* container: None, Map, or an Array of any length.
C6_DebugNeverAborts ==
    last.op = "fmt" => (~panicked /\ last.res # <<"panic">>)

C8_NoneIteration ==
    (params.tag = "None" /\ iter # NoIter) =>
        /\ iter.tag = "Empty"
        /\ yielded = <<>>
        /\ last.op = "next" => last.res = None
        /\ size_hint(iter) = <<0, Some(0)>>
        /\ last.op = "size_hint" => last.res = <<0, Some(0)>>

C8_Witness ==
    params.tag = "None" /\ last.op = "next" /\ ended /\ last.res = None

\* C9: no call (get_raw, get, iteration, Debug, copying the view) changes
\* the container, and a get_raw call returns what the first get_raw call
\* with the same key returned.
C9_ReadOnly ==
    [][/\ params' = params
       /\ (last'.op = "get_raw" /\ last'.key = watch /\ first # None) =>
                last'.res = first[1]]_vars

C9_Witness ==
    /\ last.op = "get_raw" /\ last.key = watch /\ first = Some(last.res)
    /\ last.res # None
    /\ ended

\* C10: when iteration runs, every yielded pair (k, v) has get_raw(k) = v,
\* no key is yielded twice, and a finished iteration has yielded every key
\* for which get_raw returns a value.
C10_IterationAgreesWithLookup ==
    iter # NoIter =>
        /\ \A j \in DOMAIN yielded :
                get_raw(params, yielded[j][1]) = Some(yielded[j][2])
        /\ \A i, j \in DOMAIN yielded : yielded[i][1] = yielded[j][1] => i = j
        /\ ended =>
            \A key \in Keys : get_raw(params, key) # None =>
                \E j \in DOMAIN yielded : yielded[j][1] = key

C10_Witness ==
    /\ params.tag = "Map" /\ Len(params.map) = 2
    /\ ended /\ last.op = "next"
    /\ Len(yielded) = 2

====
